---- MODULE Spec2Model ----
(***************************************************************************)
(* Model of src/preupdate_hook.rs: the single-slot preupdate hook registry *)
(* of a connection (InnerConnection::preupdate_hook) and the native        *)
(* trampoline (call_boxed_closure) the engine calls before a row change.   *)
(*                                                                         *)
(* A boxed closure is identified by its index in `boxes` (the pointer      *)
(* Box::into_raw returned); NULL is the null pointer.  A closure type F    *)
(* stands for both monomorphic instances made for it: the trampoline       *)
(* call_boxed_closure::<F> and the release function free_boxed_hook::<F>.  *)
(***************************************************************************)
EXTENDS Integers, Sequences, FiniteSets, TLC

\* ---------------------------------------------------------------- bounds
MaxReg == 3
MaxChanges == 2

\* ------------------------------------------------------------- constants
NULL == 0
None == "None"

\* Concrete closure types a caller may instantiate preupdate_hook::<F> with.
ClosureTypes == {"F1", "F2"}

\* Native action codes the engine may pass: SQLITE_DELETE, SQLITE_INSERT,
\* SQLITE_UPDATE and one code that is none of them (SQLITE_CREATE_INDEX).
ActionCodes == {9, 18, 23, 1}

\* Row identifiers handed to the trampoline.
RowIds == {1, 2}

\* Rows the engine may be changing, as the native values of the old and of
\* the new row, by column: column 0 goes from 5 to 9, column 1 from a text
\* to NULL.
RowPairs ==
    { [old |-> << [type |-> "SQLITE_INTEGER", val |-> 5],
                  [type |-> "SQLITE_TEXT", val |-> "a"] >>,
       new |-> << [type |-> "SQLITE_INTEGER", val |-> 9],
                  [type |-> "SQLITE_NULL", val |-> 0] >>] }

\* Byte strings the engine may pass as a database or table name:
\* "t", "e-acute" (two-byte UTF-8), a lone 0xFF, a truncated two-byte sequence.
NameBytes == { <<116>>, <<195, 169>>, <<255>>, <<195>> }

\* ---------------------------------------------------------------- state
VARIABLES
    boxes,                \* heap: the closures boxed so far, by pointer
    xPreUpdateCallback,   \* engine: installed trampoline (None or its type F)
    pPreUpdateArg,        \* engine: installed context pointer
    free_preupdate_hook,  \* InnerConnection.free_preupdate_hook
    pc,                   \* position inside preupdate_hook / a row change
    hook,                 \* local: pointer of the closure being installed
    new_free_hook,        \* local `free_preupdate_hook` (line 187)
    previous_hook,        \* local `previous_hook` (line 193)
    pending,              \* engine: arguments of the row change in progress
    notified,             \* engine: trampoline already called for `pending`
    last,                 \* observation of the last trampoline invocation
    started,              \* row changes begun
    applied,              \* row changes written to storage
    proc                  \* host process: running, aborted, or unwound (UB)

vars == <<boxes, xPreUpdateCallback, pPreUpdateArg, free_preupdate_hook, pc,
          hook, new_free_hook, previous_hook, pending, notified, last,
          started, applied, proc>>

registry == <<boxes, xPreUpdateCallback, pPreUpdateArg, free_preupdate_hook,
              hook, new_free_hook, previous_hook>>
engine == <<pending, notified, last, started, applied>>

NoChange == [code |-> 0]
NoCall == [called |-> FALSE]

\* ------------------------------------------------------- pure functions

\* impl From<i32> for Action (hooks.rs): the three known codes, else UNKNOWN.
ActionFrom(code) ==
    CASE code = 9  -> "SQLITE_DELETE"
      [] code = 18 -> "SQLITE_INSERT"
      [] code = 23 -> "SQLITE_UPDATE"
      [] OTHER     -> "UNKNOWN"

\* A continuation byte 10xxxxxx.
IsCont(b) == b >= 128 /\ b <= 191

\* str::from_utf8 on the byte strings of length <= 2: Ok(text) or Err.
from_utf8(c_slice) ==
    LET n == Len(c_slice)
        valid ==
            \/ n = 0
            \/ n = 1 /\ c_slice[1] <= 127
            \/ n = 2 /\ c_slice[1] <= 127 /\ c_slice[2] <= 127
            \/ n = 2 /\ c_slice[1] >= 194 /\ c_slice[1] <= 223 /\ IsCont(c_slice[2])
    IN  IF valid THEN [ok |-> TRUE, text |-> c_slice] ELSE [ok |-> FALSE]

\* Faulty variant of MakeCase: the Update arm binds the accessors to the
\* wrong row ids.
MakeCase_SwappedIds(action, old_row_id, new_row_id) ==
    CASE action = "SQLITE_INSERT" ->
            [variant |-> "Insert",
             new_value_accessor |-> [new_row_id |-> new_row_id]]
      [] action = "SQLITE_DELETE" ->
            [variant |-> "Delete",
             old_value_accessor |-> [old_row_id |-> old_row_id]]
      [] action = "SQLITE_UPDATE" ->
            [variant |-> "Update",
             old_value_accessor |-> [old_row_id |-> new_row_id],
             new_value_accessor |-> [new_row_id |-> old_row_id]]
      [] OTHER -> [variant |-> "todo"]

\* Lines 154-174: the PreUpdateCase built for an action; "todo" is the
\* `_ => todo!()` arm.
MakeCase(action, old_row_id, new_row_id) ==
    CASE action = "SQLITE_INSERT" ->
            [variant |-> "Insert",
             new_value_accessor |-> [new_row_id |-> new_row_id]]
      [] action = "SQLITE_DELETE" ->
            [variant |-> "Delete",
             old_value_accessor |-> [old_row_id |-> old_row_id]]
      [] action = "SQLITE_UPDATE" ->
            [variant |-> "Update",
             old_value_accessor |-> [old_row_id |-> old_row_id],
             new_value_accessor |-> [new_row_id |-> new_row_id]]
      [] OTHER -> [variant |-> "todo"]

\* impl From<PreUpdateCase> for Action, lines 26-34.
ActionOfCase(puc) ==
    CASE puc.variant = "Insert" -> "SQLITE_INSERT"
      [] puc.variant = "Delete" -> "SQLITE_DELETE"
      [] puc.variant = "Update" -> "SQLITE_UPDATE"

\* ------------------------------------------------------------------ Init
Init ==
    /\ boxes = <<>>
    /\ xPreUpdateCallback = None
    /\ pPreUpdateArg = NULL
    /\ free_preupdate_hook = None
    /\ pc = "idle"
    /\ hook = NULL
    /\ new_free_hook = None
    /\ previous_hook = NULL
    /\ pending = NoChange
    /\ notified = FALSE
    /\ last = NoCall
    /\ started = 0
    /\ applied = 0
    /\ proc = "running"

\* ------------------------------------------------- preupdate_hook::<F>

\* Box::into_raw(Box::new(hook)), line 195: a fresh live box holding a
\* closure of type F; its pointer is its index.
BoxNew(F) == Append(boxes, [type |-> F, releases |-> 0, freedWith |-> None])

\* free_boxed_hook::<F>(p) (hooks.rs): drop(Box::from_raw(p as *mut F)).
free_boxed_hook(F, p) ==
    [boxes EXCEPT ![p].releases = @ + 1, ![p].freedWith = F]

\* Faulty variant of CapturedFree: the is_some() test is dropped.
CapturedFree_Always(F, isSome) == F

\* Lines 187-191: the release function captured for this call.
CapturedFree(F, isSome) == IF isSome THEN F ELSE None

\* Faulty variant of RegisterInstall: the context already installed is
\* handed to the engine again.
RegisterInstall_StaleContext(F, boxed_hook) ==
    [cb |-> F, arg |-> IF pPreUpdateArg # NULL THEN pPreUpdateArg ELSE boxed_hook]

\* Faulty variant of RegisterInstall: the trampoline already installed is
\* kept.
RegisterInstall_StaleTrampoline(F, boxed_hook) ==
    [cb |-> IF xPreUpdateCallback # None THEN xPreUpdateCallback ELSE F,
     arg |-> boxed_hook]

\* Lines 197-201: what the Some arm installs with the engine.
RegisterInstall(F, boxed_hook) == [cb |-> F, arg |-> boxed_hook]

\* Faulty variant of RemoveInstall: the engine keeps what it had.
RemoveInstall_KeepsEngine == [cb |-> xPreUpdateCallback, arg |-> pPreUpdateArg]

\* Line 204: what the None arm installs with the engine.
RemoveInstall == [cb |-> None, arg |-> NULL]

\* ffi::sqlite3_preupdate_hook(db, xCallback, pArg): the engine replaces its
\* trampoline and context and returns the context it held before.
sqlite3_preupdate_hook(inst) ==
    /\ previous_hook' = pPreUpdateArg
    /\ xPreUpdateCallback' = inst.cb
    /\ pPreUpdateArg' = inst.arg

\* Lines 187-205 with hook = Some(closure of type F).
Register(F) ==
    /\ proc = "running"
    /\ pc = "idle"
    /\ Len(boxes) < MaxReg
    /\ new_free_hook' = CapturedFree(F, TRUE)
    /\ boxes' = BoxNew(F)
    /\ hook' = Len(boxes) + 1
    /\ sqlite3_preupdate_hook(RegisterInstall(F, Len(boxes) + 1))
    /\ pc' = "installed"
    /\ UNCHANGED <<free_preupdate_hook, engine, proc>>

\* Lines 187-205 with hook = None::<F>; remove_preupdate_hook (lines 121-124)
\* is the instance with F = fn(Action, &str, &str, &PreUpdateCase).
Remove(F) ==
    /\ proc = "running"
    /\ pc = "idle"
    /\ new_free_hook' = CapturedFree(F, FALSE)
    /\ hook' = NULL
    /\ sqlite3_preupdate_hook(RemoveInstall)
    /\ pc' = "installed"
    /\ UNCHANGED <<boxes, free_preupdate_hook, engine, proc>>

\* Faulty variant of ShouldRelease: tests the option captured by this call
\* instead of the stored one.
ShouldRelease_TestsNewFn == previous_hook # NULL /\ new_free_hook # None

\* Lines 206-207: is a release call made?
ShouldRelease == previous_hook # NULL /\ free_preupdate_hook # None

\* Faulty variant of ReleaseFn: the function captured by this call.
ReleaseFn_NewlyCaptured ==
    IF new_free_hook # None THEN new_free_hook ELSE free_preupdate_hook

\* Line 207: the release function called, the one stored in the connection.
ReleaseFn == free_preupdate_hook

\* Faulty variant of ReleaseTarget: the box made by this call.
ReleaseTarget_NewBox == IF hook # NULL THEN hook ELSE previous_hook

\* Line 208: the pointer released.
ReleaseTarget == previous_hook

\* Lines 206-210.
ReleasePrevious ==
    /\ proc = "running"
    /\ pc = "installed"
    /\ boxes' = IF ShouldRelease
                THEN free_boxed_hook(ReleaseFn, ReleaseTarget)
                ELSE boxes
    /\ pc' = "released"
    /\ UNCHANGED <<xPreUpdateCallback, pPreUpdateArg, free_preupdate_hook,
                   hook, new_free_hook, previous_hook, engine, proc>>

\* Faulty variant of FreeToStore: a stored function is never overwritten.
FreeToStore_KeepsFirst ==
    IF free_preupdate_hook # None THEN free_preupdate_hook ELSE new_free_hook

\* Line 211: the value stored in self.free_preupdate_hook.
FreeToStore == new_free_hook

\* Line 211, and the return of preupdate_hook (its locals go out of scope).
StoreFree ==
    /\ proc = "running"
    /\ pc = "released"
    /\ free_preupdate_hook' = FreeToStore
    /\ hook' = NULL
    /\ new_free_hook' = None
    /\ previous_hook' = NULL
    /\ pc' = "idle"
    /\ UNCHANGED <<boxes, xPreUpdateCallback, pPreUpdateArg, engine, proc>>

\* ------------------------------------------------------- row changes

\* The engine starts a row change on the connection (between hook calls:
\* the connection is driven by one thread).
BeginChange ==
    /\ proc = "running"
    /\ pc = "idle"
    /\ started < MaxChanges
    /\ \E code \in ActionCodes, db \in NameBytes, tbl \in NameBytes,
          o \in RowIds, n \in RowIds, row \in RowPairs :
          pending' = [code |-> code, db_str |-> db, tbl_str |-> tbl,
                      old_row_id |-> o, new_row_id |-> n,
                      old_row |-> row.old, new_row |-> row.new]
    /\ started' = started + 1
    /\ notified' = FALSE
    /\ last' = NoCall
    /\ pc' = "change"
    /\ UNCHANGED <<registry, applied, proc>>

\* ffi::sqlite3_preupdate_count(db): columns of the row being changed.
sqlite3_preupdate_count(ch) == Len(ch.old_row)

\* ffi::sqlite3_preupdate_old(db, i, &p_value): the native value of column i
\* (from 0) of the row before the change.
sqlite3_preupdate_old(ch, i) == ch.old_row[i + 1]

\* ffi::sqlite3_preupdate_new(db, i, &p_value): the native value of column i
\* (from 0) of the row after the change.
sqlite3_preupdate_new(ch, i) == ch.new_row[i + 1]

\* ValueRef::from_value (types): the typed view of a native value.
ValueRef_from_value(p_value) ==
    CASE p_value.type = "SQLITE_NULL"    -> <<"Null">>
      [] p_value.type = "SQLITE_INTEGER" -> <<"Integer", p_value.val>>
      [] p_value.type = "SQLITE_TEXT"    -> <<"Text", p_value.val>>

\* Faulty variant of get_old_column_value: it asks the engine for the new
\* value.
get_old_column_value_AsksNew(self, ch, i) ==
    ValueRef_from_value(sqlite3_preupdate_new(ch, i))

\* Lines 59-65: PreUpdateOldValueAccessor::get_old_column_value(i), during
\* the engine's change ch.
get_old_column_value(self, ch, i) ==
    ValueRef_from_value(sqlite3_preupdate_old(ch, i))

\* Lines 91-97: PreUpdateNewValueAccessor::get_new_column_value(i), during
\* the engine's change ch.
get_new_column_value(self, ch, i) ==
    ValueRef_from_value(sqlite3_preupdate_new(ch, i))

\* What a closure sees that queries every in-range column of each accessor
\* its PreUpdateCase holds.
ClosureReads(puc, ch) ==
    LET cols == 0 .. (sqlite3_preupdate_count(ch) - 1)
    IN  [old |-> IF "old_value_accessor" \in DOMAIN puc
                 THEN [i \in cols |->
                         get_old_column_value(puc.old_value_accessor, ch, i)]
                 ELSE <<>>,
         new |-> IF "new_value_accessor" \in DOMAIN puc
                 THEN [i \in cols |->
                         get_new_column_value(puc.new_value_accessor, ch, i)]
                 ELSE <<>>]

NoReads == [old |-> <<>>, new |-> <<>>]

\* Outcomes of a panic that leaves an extern "C" function: the process
\* aborts, or the unwinding continues into the engine's frames (undefined
\* behaviour).
EscapeOutcomes == {"aborted", "unwound"}

\* Lines 176-184: the body run under catch_unwind.  The two expect() calls
\* are arguments of the closure call, evaluated before it, inside the
\* catch_unwind closure.
CaughtBody(action, db_name, tbl_name, puc, closure_panics) ==
    IF ~db_name.ok
    THEN [invoked |-> FALSE, args |-> <<>>, caught |-> "illegal db name"]
    ELSE IF ~tbl_name.ok
    THEN [invoked |-> FALSE, args |-> <<>>, caught |-> "illegal table name"]
    ELSE [invoked |-> TRUE,
          args |-> <<action, db_name.text, tbl_name.text, puc>>,
          caught |-> IF closure_panics THEN "closure panic" ELSE "none"]

\* Faulty variant of catch_unwind: the body is called without the catch.
catch_unwind_Missing(r, escape) ==
    IF r.caught # "none" THEN escape ELSE "returned"

\* Line 176, `let _ = catch_unwind(..)`: whatever the body did, a panic
\* included, the trampoline goes on to return normally.
catch_unwind(r, escape) == "returned"

\* Lines 130-185: call_boxed_closure::<F>(p_arg, sqlite, action_code, db_str,
\* tbl_str, old_row_id, new_row_id).  `closure_panics` is what the closure
\* does when called; `escape` is what the build makes of a panic leaving the
\* extern "C" function (todo!() at line 173 is outside catch_unwind).
call_boxed_closure(F, p_arg, ch, closure_panics, escape) ==
    LET action == ActionFrom(ch.code)
        db_name == from_utf8(ch.db_str)
        tbl_name == from_utf8(ch.tbl_str)
        puc == MakeCase(action, ch.old_row_id, ch.new_row_id)
    IN  IF puc.variant = "todo"
        THEN [called |-> TRUE, F |-> F, p_arg |-> p_arg, action |-> action,
              invoked |-> FALSE, args |-> <<>>, caught |-> "none",
              seen |-> NoReads, outcome |-> escape]
        ELSE LET r == CaughtBody(action, db_name, tbl_name, puc, closure_panics)
             IN  [called |-> TRUE, F |-> F, p_arg |-> p_arg, action |-> action,
                  invoked |-> r.invoked, args |-> r.args, caught |-> r.caught,
                  seen |-> IF r.invoked THEN ClosureReads(puc, ch)
                           ELSE NoReads,
                  outcome |-> catch_unwind(r, escape)]

\* The engine calls the installed trampoline with the installed context,
\* before the row is written.
Trampoline ==
    /\ proc = "running"
    /\ pc = "change"
    /\ ~notified
    /\ xPreUpdateCallback # None
    /\ \E closure_panics \in BOOLEAN, escape \in EscapeOutcomes :
          last' = call_boxed_closure(xPreUpdateCallback, pPreUpdateArg,
                                     pending, closure_panics, escape)
    /\ notified' = TRUE
    /\ proc' = IF last'.outcome = "returned" THEN "running" ELSE last'.outcome
    /\ UNCHANGED <<registry, pc, pending, started, applied>>

\* The engine writes the row once the trampoline (if any) has returned.
ApplyChange ==
    /\ proc = "running"
    /\ pc = "change"
    /\ xPreUpdateCallback = None \/ notified
    /\ applied' = applied + 1
    /\ pending' = NoChange
    /\ notified' = FALSE
    /\ pc' = "idle"
    /\ UNCHANGED <<registry, last, started, proc>>

\* ------------------------------------------------------- specification
Next ==
    \/ \E F \in ClosureTypes : Register(F)
    \/ \E F \in ClosureTypes \cup {"fn"} : Remove(F)
    \/ ReleasePrevious
    \/ StoreFree
    \/ BeginChange
    \/ Trampoline
    \/ ApplyChange

Spec == Init /\ [][Next]_vars

\* ------------------------------------------------------------- claims

\* No hook call and no row change is in progress.
Quiescent == pc \in {"idle", "change"}

\* The registry states of section 4.4.
Unset ==
    /\ pPreUpdateArg = NULL
    /\ xPreUpdateCallback = None
    /\ free_preupdate_hook = None

\* The trampoline has just been called in this step.
TrampolineStep == ~notified /\ notified'

\* C1: after any sequence of completed preupdate_hook(Some)/preupdate_hook(None)
\* calls, the only closure not released is the one installed with the engine,
\* every closure replaced or removed has been released exactly once, and no
\* closure is ever released twice.
C1_ReleasedExactlyOnce ==
    /\ \A p \in DOMAIN boxes : boxes[p].releases <= 1
    /\ Quiescent =>
          /\ Cardinality({p \in DOMAIN boxes : boxes[p].releases = 0}) <= 1
          /\ \A p \in DOMAIN boxes :
                IF p = pPreUpdateArg
                THEN boxes[p].releases = 0
                ELSE boxes[p].releases = 1

\* Two closures were registered and the second was removed: both released.
C1_Witness ==
    /\ pc = "idle"
    /\ Len(boxes) = 2
    /\ pPreUpdateArg = NULL
    /\ boxes[1].releases = 1
    /\ boxes[2].releases = 1

\* C2: whenever a closure is released, the release function called is the one
\* held in self.free_preupdate_hook before the call, it is the one made for
\* the released closure's type when that closure was registered, and the
\* stored release function is not overwritten in that step.
C2_ReleaseUsesStoredFn ==
    [][ \A p \in DOMAIN boxes :
            boxes'[p].releases > boxes[p].releases =>
                /\ boxes'[p].freedWith = free_preupdate_hook
                /\ boxes'[p].freedWith = boxes[p].type
                /\ free_preupdate_hook' = free_preupdate_hook
                /\ p = previous_hook ]_vars

\* A closure of one type was released while a closure of another type was
\* being installed.
C2_Witness ==
    /\ pc = "released"
    /\ previous_hook # NULL
    /\ boxes[previous_hook].releases = 1
    /\ new_free_hook # None
    /\ new_free_hook # boxes[previous_hook].freedWith

\* C3: between completed register/remove operations the stored release
\* function is Some iff the engine's context pointer is non-null, and when
\* Set it is the release function of the installed closure's type.
C3_FreeIffInstalled ==
    Quiescent =>
        /\ (free_preupdate_hook # None) <=> (pPreUpdateArg # NULL)
        /\ pPreUpdateArg # NULL =>
              /\ pPreUpdateArg \in DOMAIN boxes
              /\ free_preupdate_hook = boxes[pPreUpdateArg].type

\* Set again after a replacement by a closure of a different type.
C3_Witness ==
    /\ pc = "idle"
    /\ Len(boxes) = 2
    /\ pPreUpdateArg = 2
    /\ free_preupdate_hook = boxes[2].type
    /\ boxes[1].type # boxes[2].type

\* A hook call with hook = None is in progress and found the registry Unset.
RemovingWhenUnset ==
    /\ pc \in {"installed", "released"}
    /\ hook = NULL
    /\ previous_hook = NULL
    /\ free_preupdate_hook = None

\* C4: a remove that starts in Unset releases nothing and leaves the registry
\* Unset at each of its steps, so a second remove changes nothing.
C4_RemoveWhenUnsetIsNoOp ==
    [][ /\ (pc = "idle" /\ pc' = "installed" /\ hook' = NULL /\ Unset) =>
              (Unset' /\ boxes' = boxes /\ previous_hook' = NULL)
        /\ RemovingWhenUnset =>
              (Unset' /\ boxes' = boxes) ]_vars

\* The second of two removes in a row, after a registration.
C4_Witness ==
    /\ RemovingWhenUnset
    /\ pc = "released"
    /\ Len(boxes) = 1
    /\ boxes[1].releases = 1
    /\ Unset

\* C5: the trampoline is never called while no closure is installed, and a
\* call of it never invokes a closure that was removed (released) before.
C5_RemovedNeverInvoked ==
    [][ TrampolineStep =>
            /\ pPreUpdateArg # NULL
            /\ last'.p_arg = pPreUpdateArg
            /\ last'.invoked =>
                  /\ last'.p_arg \in DOMAIN boxes
                  /\ boxes[last'.p_arg].releases = 0 ]_vars

\* A row change in progress after a removal: the removed closure is released
\* and the engine has no trampoline to call for this change.
C5_Witness ==
    /\ pc = "change"
    /\ pending # NoChange
    /\ ~notified
    /\ Len(boxes) = 1
    /\ boxes[1].releases = 1
    /\ pPreUpdateArg = NULL
    /\ xPreUpdateCallback = None

\* C6: when a registration has returned with a closure installed, every
\* closure registered before it has been released (so closure #1 is released
\* before closure #2 can fire), and every trampoline call that reaches a
\* closure reaches the one registered last, all earlier ones being released.
C6_ReplacedReleasedBeforeActive ==
    [][ /\ (pc' = "idle" /\ pPreUpdateArg' # NULL) =>
              /\ pPreUpdateArg' = Len(boxes')
              /\ \A q \in 1 .. (Len(boxes') - 1) : boxes'[q].releases = 1
        /\ (TrampolineStep /\ last'.invoked) =>
              /\ last'.p_arg = Len(boxes)
              /\ \A q \in 1 .. (Len(boxes) - 1) : boxes[q].releases = 1 ]_vars

\* Closure #2 fired on a row change after replacing closure #1.
C6_Witness ==
    /\ pc = "change"
    /\ notified
    /\ last.called
    /\ last.invoked
    /\ last.p_arg = 2
    /\ Len(boxes) = 2
    /\ boxes[1].releases = 1
    /\ boxes[2].releases = 0

\* The closure was reached by the trampoline call for the pending change.
ClosureReached == pc = "change" /\ notified /\ last.called /\ last.invoked

\* C7: whenever the trampoline reaches the closure, the PreUpdateCase passed
\* matches the Action passed: Insert holds only a new-value accessor bound to
\* new_row_id, Delete only an old-value accessor bound to old_row_id, Update
\* both, unswapped; and From<PreUpdateCase> gives back the same Action.
C7_CaseMatchesAction ==
    ClosureReached =>
        LET action == last.args[1]
            puc == last.args[4]
        IN  /\ action = ActionFrom(pending.code)
            /\ action \in {"SQLITE_INSERT", "SQLITE_DELETE", "SQLITE_UPDATE"}
            /\ action = "SQLITE_INSERT" =>
                  /\ puc.variant = "Insert"
                  /\ DOMAIN puc = {"variant", "new_value_accessor"}
                  /\ puc.new_value_accessor.new_row_id = pending.new_row_id
            /\ action = "SQLITE_DELETE" =>
                  /\ puc.variant = "Delete"
                  /\ DOMAIN puc = {"variant", "old_value_accessor"}
                  /\ puc.old_value_accessor.old_row_id = pending.old_row_id
            /\ action = "SQLITE_UPDATE" =>
                  /\ puc.variant = "Update"
                  /\ DOMAIN puc = {"variant", "old_value_accessor",
                                   "new_value_accessor"}
                  /\ puc.old_value_accessor.old_row_id = pending.old_row_id
                  /\ puc.new_value_accessor.new_row_id = pending.new_row_id
            /\ ActionOfCase(puc) = action

\* The closure was reached for an Update whose row id changes.
C7_Witness ==
    /\ ClosureReached
    /\ last.args[1] = "SQLITE_UPDATE"
    /\ pending.old_row_id # pending.new_row_id

\* C8: a panic of the closure is caught: the trampoline returns normally,
\* the process keeps running, the registry is left as it was, and the engine
\* can go on to write the row.
C8_ClosurePanicContained ==
    /\ [](  (pc = "change" /\ notified /\ last.called
                /\ last.caught = "closure panic") =>
            /\ last.outcome = "returned"
            /\ proc = "running"
            /\ ENABLED ApplyChange )
    /\ [][ (TrampolineStep /\ last'.caught = "closure panic") =>
            /\ proc' = "running"
            /\ UNCHANGED <<boxes, xPreUpdateCallback, pPreUpdateArg,
                           free_preupdate_hook>> ]_vars

\* The row change was written after the closure panicked, the hook still set.
C8_Witness ==
    /\ pc = "idle"
    /\ proc = "running"
    /\ last.called
    /\ last.caught = "closure panic"
    /\ applied = started
    /\ applied >= 1
    /\ pPreUpdateArg = last.p_arg
    /\ boxes[pPreUpdateArg].releases = 0

\* The trampoline was called with a name that is not valid UTF-8.
BadNamePassed ==
    /\ pc = "change"
    /\ notified
    /\ last.called
    /\ ~from_utf8(pending.db_str).ok \/ ~from_utf8(pending.tbl_str).ok

\* C9: if the database name or the table name is not validly encoded, the
\* trampoline fails fatally instead of returning normally (the failure is
\* not swallowed, the process does not keep running), and the closure is not
\* invoked.
C9_BadNameIsFatal ==
    BadNamePassed =>
        /\ ~last.invoked
        /\ last.caught = "none"
        /\ last.outcome # "returned"
        /\ proc # "running"

\* The trampoline was called with an action code that is none of
\* Insert/Delete/Update.
UnknownCodePassed ==
    /\ pc = "change"
    /\ notified
    /\ last.called
    /\ ActionFrom(pending.code) = "UNKNOWN"

\* C10: if the action code is none of Insert/Delete/Update, the trampoline
\* terminates the program at once and never invokes the closure.
C10_UnknownCodeTerminates ==
    UnknownCodePassed =>
        /\ ~last.invoked
        /\ proc = "aborted"

\* Closure invocations made for the row change in progress (the engine calls
\* the trampoline at most once per change).
InvocationsForChange == IF last.called /\ last.invoked THEN 1 ELSE 0

\* C11: while a hook is registered, whenever the engine is about to write a
\* row, the registered closure has been invoked exactly once for that change,
\* with the change's action and table name.
C11_OneInvocationBeforeApply ==
    (pc = "change" /\ proc = "running" /\ notified /\ pPreUpdateArg # NULL) =>
        /\ InvocationsForChange = 1
        /\ last.p_arg = pPreUpdateArg
        /\ last.args[1] = ActionFrom(pending.code)
        /\ last.args[3] = pending.tbl_str

\* C12: in an Update callback, get_old_column_value(i) yields the engine's
\* pre-change value of column i and get_new_column_value(i) its post-change
\* value, for every in-range i, never swapped (5 -> 9 reads old 5, new 9).
C12_OldAndNewValues ==
    (ClosureReached /\ last.args[1] = "SQLITE_UPDATE") =>
        /\ DOMAIN last.seen.old = 0 .. (Len(pending.old_row) - 1)
        /\ DOMAIN last.seen.new = 0 .. (Len(pending.new_row) - 1)
        /\ \A i \in DOMAIN last.seen.old :
              /\ last.seen.old[i][1] =
                    (IF pending.old_row[i + 1].type = "SQLITE_INTEGER"
                     THEN "Integer"
                     ELSE IF pending.old_row[i + 1].type = "SQLITE_TEXT"
                     THEN "Text" ELSE "Null")
              /\ last.seen.old[i][1] # "Null" =>
                    last.seen.old[i][2] = pending.old_row[i + 1].val
        /\ \A i \in DOMAIN last.seen.new :
              /\ last.seen.new[i][1] =
                    (IF pending.new_row[i + 1].type = "SQLITE_INTEGER"
                     THEN "Integer"
                     ELSE IF pending.new_row[i + 1].type = "SQLITE_TEXT"
                     THEN "Text" ELSE "Null")
              /\ last.seen.new[i][1] # "Null" =>
                    last.seen.new[i][2] = pending.new_row[i + 1].val

\* An Update of column 0 from 5 to 9 was seen by the closure as old 5, new 9.
C12_Witness ==
    /\ ClosureReached
    /\ last.args[1] = "SQLITE_UPDATE"
    /\ pending.old_row[1].val = 5
    /\ pending.new_row[1].val = 9
    /\ last.seen.old[0] = <<"Integer", 5>>
    /\ last.seen.new[0] = <<"Integer", 9>>

\* C14: in every state, the steps inside a replace included, the context
\* pointer the engine holds is null or points to a closure that has not been
\* released.
C14_EngineContextNeverReleased ==
    \/ pPreUpdateArg = NULL
    \/ /\ pPreUpdateArg \in DOMAIN boxes
       /\ boxes[pPreUpdateArg].releases = 0

\* Inside a replace: the new closure is installed and live, the old one has
\* just been released, the release function is not stored yet.
C14_Witness ==
    /\ pc = "released"
    /\ hook # NULL
    /\ pPreUpdateArg = hook
    /\ boxes[hook].releases = 0
    /\ previous_hook # NULL
    /\ boxes[previous_hook].releases = 1
    /\ free_preupdate_hook = boxes[previous_hook].type

\* C15: no trampoline invocation lets a panic unwind out of the trampoline
\* into the engine's call stack, whatever its input.
C15_NoUnwindIntoEngine ==
    /\ proc # "unwound"
    /\ last.called => last.outcome # "unwound"

\* C16: between completed register/remove operations the engine's trampoline
\* is absent iff its context is null, and when present the trampoline and
\* the stored release function are both the instances made for the type of
\* the closure the context points to.
C16_SameRegistration ==
    Quiescent =>
        /\ (xPreUpdateCallback = None) <=> (pPreUpdateArg = NULL)
        /\ pPreUpdateArg # NULL =>
              /\ pPreUpdateArg \in DOMAIN boxes
              /\ xPreUpdateCallback = boxes[pPreUpdateArg].type
              /\ free_preupdate_hook = boxes[pPreUpdateArg].type
              /\ free_preupdate_hook = xPreUpdateCallback

\* A hook was replaced by one of a different closure type; trampoline and
\* release function are those of the new type.
C16_Witness ==
    /\ pc = "idle"
    /\ Len(boxes) >= 2
    /\ pPreUpdateArg = Len(boxes)
    /\ boxes[Len(boxes) - 1].type # boxes[Len(boxes)].type
    /\ boxes[Len(boxes) - 1].releases = 1
    /\ xPreUpdateCallback = boxes[Len(boxes)].type
    /\ free_preupdate_hook = boxes[Len(boxes)].type
====
